---- MODULE Spec2Model ----
(***************************************************************************)
(* QuickMD (mdCSV.py): the Markdown pipe-table model, its parser, the      *)
(* delimited-text helpers and the table handlers of the application.       *)
(*                                                                         *)
(* A Python str is a sequence of one-character strings, so that every      *)
(* conversion (rendering, splitting, stripping, quoting) is computed       *)
(* character by character.  A value that may be None is a sequence of      *)
(* length 0 (None) or 1.  Indices into Python lists keep the source's      *)
(* 0-based numbering; list element i of the source is element i+1 here.    *)
(***************************************************************************)
EXTENDS Integers, Sequences, FiniteSets, TLC

VARIABLES
    editor,               \* self.editor: the document text
    current_tables,       \* self.current_tables: list of (start, end, table)
    current_table_index,  \* self.current_table_index: None or an index
    picker_values,        \* self.table_picker["values"]
    picker_current,       \* self.table_picker.current(): -1 when nothing is selected
    table_cols,           \* self.table_cols: the column ids, c0 c1 ... as 0 1 ...
    tree_columns,         \* heading text of each column of self.tree
    tree_rows,            \* values of each item of self.tree, in order
    clipboard,            \* the clipboard: None or a text
    status,               \* the text of the status label
    reported,             \* what the last handler showed in a message box, or the
                          \* exception that ended it: None or [via, text]
    pc,                   \* position of the function harness
    inp,                  \* input handed to the function under check
    out                   \* what the function returned

appvars == <<editor, current_tables, current_table_index, picker_values,
             picker_current, table_cols, tree_columns, tree_rows, clipboard,
             status, reported>>

harness == <<pc, inp, out>>

vars == <<appvars, harness>>

-----------------------------------------------------------------------------
(* Characters and the str methods the source uses.                         *)

NL == "\n"
CR == "\r"
TAB == "\t"
SP == " "
BAR == "|"
DASH == "-"
COLON == ":"
COMMA == ","
QUOTE == "\""

None == <<>>
Some(x) == <<x>>

\* str.strip() and str.splitlines() over the characters the model uses.
Whitespace == {SP, TAB, NL, CR}
LineBreaks == {NL, CR}

Max(a, b) == IF a >= b THEN a ELSE b

\* c * n
RECURSIVE Rep(_, _)
Rep(c, n) == IF n <= 0 THEN <<>> ELSE <<c>> \o Rep(c, n - 1)

\* s.rjust(w) in place of s.ljust(w)
rjust(s, w) == Rep(SP, w - Len(s)) \o s

\* s.ljust(w)
ljust(s, w) == s \o Rep(SP, w - Len(s))

\* sep.join(parts)
RECURSIVE join(_, _)
join(sep, parts) ==
    IF parts = <<>> THEN <<>>
    ELSE IF Len(parts) = 1 THEN parts[1]
    ELSE parts[1] \o sep \o join(sep, Tail(parts))

\* c in s
contains(s, c) == \E k \in 1..Len(s) : s[k] = c

\* s.lstrip(), s.rstrip(), s.strip()
RECURSIVE lstrip(_)
lstrip(s) == IF s # <<>> /\ s[1] \in Whitespace THEN lstrip(Tail(s)) ELSE s

RECURSIVE rstrip(_)
rstrip(s) ==
    IF s # <<>> /\ s[Len(s)] \in Whitespace
    THEN rstrip(SubSeq(s, 1, Len(s) - 1)) ELSE s

strip(s) == rstrip(lstrip(s))

\* s.rstrip("\n")
RECURSIVE rstrip_nl(_)
rstrip_nl(s) ==
    IF s # <<>> /\ s[Len(s)] = NL
    THEN rstrip_nl(SubSeq(s, 1, Len(s) - 1)) ELSE s

\* s.split(c): always at least one part
RECURSIVE split_from(_, _, _)
split_from(s, c, cur) ==
    IF s = <<>> THEN <<cur>>
    ELSE IF s[1] = c THEN <<cur>> \o split_from(Tail(s), c, <<>>)
    ELSE split_from(Tail(s), c, Append(cur, s[1]))

split(s, c) == split_from(s, c, <<>>)

\* text.splitlines(): breaks at "\n", "\r" and "\r\n"; no empty last line
RECURSIVE splitlines(_)

\* the position of the first line break of text
first_break(text) ==
    CHOOSE k \in 1..Len(text) :
        text[k] \in LineBreaks /\ \A j \in 1..(k - 1) : text[j] \notin LineBreaks

\* the length of the line break at position k: 2 for "\r\n"
break_len(text, k) ==
    IF text[k] = CR /\ k < Len(text) /\ text[k + 1] = NL THEN 2 ELSE 1

\* the line before the break at k, then the lines after it
cut_line(text, k) ==
    <<SubSeq(text, 1, k - 1)>>
    \o splitlines(SubSeq(text, k + break_len(text, k), Len(text)))

splitlines(text) ==
    IF text = <<>> THEN <<>>
    ELSE IF \A k \in 1..Len(text) : text[k] \notin LineBreaks THEN <<text>>
    ELSE cut_line(text, first_break(text))

\* lst[a:b] with 0 <= a, in the source's 0-based numbering
slice(lst, a, b) ==
    IF a >= b \/ a >= Len(lst) THEN <<>>
    ELSE SubSeq(lst, a + 1, IF b <= Len(lst) THEN b ELSE Len(lst))

-----------------------------------------------------------------------------
(* class MarkdownTable                                                     *)

MarkdownTable(header, aligns, rows) ==
    [header |-> header, aligns |-> aligns, rows |-> rows]

\* the cell of column i (0-based) of a row, "" when the row is short
cell_of(r, i) == IF i < Len(r) THEN r[i + 1] ELSE <<>>

\* widths after the loop over the rows: one max() per row and column
RECURSIVE widths_loop(_, _, _)
widths_loop(widths, rows, cols) ==
    IF rows = <<>> THEN widths
    ELSE widths_loop(
             [i \in 1..cols |-> Max(widths[i], Len(cell_of(rows[1], i - 1)))],
             Tail(rows), cols)

col_widths(t) ==
    LET cols == Len(t.header)
    IN  widths_loop([i \in 1..cols |-> Len(t.header[i])], t.rows, cols)

fmt_row(cells, widths, cols) ==
    <<BAR>> \o
    join(<<BAR>>, [i \in 1..cols |->
                      <<SP>> \o ljust(cell_of(cells, i - 1), widths[i]) \o <<SP>>])
    \o <<BAR>>

\* fmt_align writing widths[i] dashes where the source writes widths[i] + 1
fmt_align_narrow(i, aligns, widths) ==
    LET a == IF i < Len(aligns) THEN aligns[i + 1] ELSE "left"
    IN  IF a = "left" THEN <<COLON>> \o Rep(DASH, widths[i + 1])
        ELSE IF a = "right" THEN Rep(DASH, widths[i + 1]) \o <<COLON>>
        ELSE <<COLON>> \o Rep(DASH, widths[i + 1]) \o <<COLON>>

fmt_align(i, aligns, widths) ==
    LET a == IF i < Len(aligns) THEN aligns[i + 1] ELSE "left"
    IN  IF a = "left" THEN <<COLON>> \o Rep(DASH, widths[i + 1] + 1)
        ELSE IF a = "right" THEN Rep(DASH, widths[i + 1] + 1) \o <<COLON>>
        ELSE <<COLON>> \o Rep(DASH, widths[i + 1]) \o <<COLON>>

\* the list md of to_markdown, before the final join
md_rows(t, cols, widths) ==
    <<fmt_row(t.header, widths, cols),
      <<BAR>> \o join(<<BAR>>, [i \in 1..cols |-> fmt_align(i - 1, t.aligns, widths)])
              \o <<BAR>>>>
    \o [k \in 1..Len(t.rows) |-> fmt_row(t.rows[k], widths, cols)]

md_lines(t) == md_rows(t, Len(t.header), col_widths(t))

to_markdown(t) == join(<<NL>>, md_lines(t))

-----------------------------------------------------------------------------
(* parse_pipe_table and find_tables                                        *)

\* the loop of parse_pipe_table: the index where the run of table lines ends
RECURSIVE run_end(_, _)
run_end(lines, i) ==
    IF i < Len(lines)
       /\ contains(rstrip_nl(lines[i + 1]), BAR)
       /\ strip(rstrip_nl(lines[i + 1])) # <<>>
    THEN run_end(lines, i + 1)
    ELSE i

\* if s.startswith("|"): s = s[1:]
drop_leading_bar(s) == IF s # <<>> /\ s[1] = BAR THEN Tail(s) ELSE s

\* if s.endswith("|"): s = s[:-1]
drop_trailing_bar(s) ==
    IF s # <<>> /\ s[Len(s)] = BAR THEN SubSeq(s, 1, Len(s) - 1) ELSE s

\* [c.strip() for c in parts]
strip_each(parts) == [k \in 1..Len(parts) |-> strip(parts[k])]

split_row(s) ==
    strip_each(split(drop_trailing_bar(drop_leading_bar(strip(s))), BAR))

\* re.match(r"^:?-{2,}:?$", seg): "$" also matches before one final "\n"
RECURSIVE skip_dashes(_)
skip_dashes(s) == IF s # <<>> /\ s[1] = DASH THEN skip_dashes(Tail(s)) ELSE s

\* the pattern with -{1,} in place of -{2,}
match_separator_one_dash(seg) ==
    LET a == IF seg # <<>> /\ seg[1] = COLON THEN Tail(seg) ELSE seg
        b == skip_dashes(a)
        c == IF b # <<>> /\ b[1] = COLON THEN Tail(b) ELSE b
    IN  /\ Len(a) - Len(b) >= 1
        /\ (c = <<>> \/ c = <<NL>>)

match_separator(seg) ==
    LET a == IF seg # <<>> /\ seg[1] = COLON THEN Tail(seg) ELSE seg
        b == skip_dashes(a)
        c == IF b # <<>> /\ b[1] = COLON THEN Tail(b) ELSE b
    IN  /\ Len(a) - Len(b) >= 2
        /\ (c = <<>> \/ c = <<NL>>)

\* align_of testing the leading colon where the source tests the trailing one
align_of_leading(seg0) ==
    LET seg == strip(seg0)
        left == seg # <<>> /\ seg[1] = COLON
        right == seg # <<>> /\ seg[Len(seg)] = COLON
    IN  IF left /\ right THEN "center"
        ELSE IF left THEN "right"
        ELSE "left"

align_of(seg0) ==
    LET seg == strip(seg0)
        left == seg # <<>> /\ seg[1] = COLON
        right == seg # <<>> /\ seg[Len(seg)] = COLON
    IN  IF left /\ right THEN "center"
        ELSE IF right THEN "right"
        ELSE "left"

\* returns (t, i) as a record: t is None or a table
\* the lines start_index .. i-1, each without its trailing "\n"
collect_run(lines, start_index, i) ==
    [k \in 1..(i - start_index) |-> rstrip_nl(lines[start_index + k])]

\* parse_pipe_table once header and separator are split
parse_rows(header, separator, table_lines, start_index, i) ==
    IF ~ \A k \in 1..Len(separator) : match_separator(separator[k])
    THEN [t |-> None, i |-> start_index]
    ELSE [t |-> Some(MarkdownTable(
                    header,
                    [k \in 1..Len(separator) |-> align_of(separator[k])],
                    [k \in 1..(Len(table_lines) - 2) |-> split_row(table_lines[k + 2])])),
          i |-> i]

\* parse_pipe_table once the run of table lines is collected
parse_run(table_lines, start_index, i) ==
    IF Len(table_lines) < 2 THEN [t |-> None, i |-> start_index]
    ELSE parse_rows(split_row(table_lines[1]), split_row(table_lines[2]),
                    table_lines, start_index, i)

\* parse_pipe_table once the loop has stopped at i
parse_from(lines, start_index, i) ==
    parse_run(collect_run(lines, start_index, i), start_index, i)

parse_pipe_table(lines, start_index) ==
    parse_from(lines, start_index, run_end(lines, start_index))

\* find_loop resuming one line after the start of a table it found
RECURSIVE find_loop_rescan(_, _)
find_loop_rescan(lines, i) ==
    IF i < Len(lines)
    THEN LET r == parse_pipe_table(lines, i)
         IN  IF r.t # None
             THEN <<[start |-> i, end |-> r.i, table |-> r.t[1]]>>
                  \o find_loop_rescan(lines, i + 1)
             ELSE find_loop_rescan(lines, i + 1)
    ELSE <<>>

\* the loop of find_tables from line i on
RECURSIVE find_loop(_, _)

\* one pass of the loop: r is what parse_pipe_table returned for line i
find_step(lines, i, r) ==
    IF r.t # None
    THEN <<[start |-> i, end |-> r.i, table |-> r.t[1]]>> \o find_loop(lines, r.i)
    ELSE find_loop(lines, i + 1)

find_loop(lines, i) ==
    IF i < Len(lines) THEN find_step(lines, i, parse_pipe_table(lines, i)) ELSE <<>>

find_tables(md_text) == find_loop(splitlines(md_text), 0)

-----------------------------------------------------------------------------
(* The state of the application after App.__init__ when no last file is    *)
(* remembered: the starter document is in the editor, no table is detected.*)

StarterLines ==
    << <<"#"," ","N","e","w"," ","D","o","c","u","m","e","n","t">>,
       <<>>,
       <<"T","y","p","e"," ","h","e","r","e",".",".",".">>,
       <<>>,
       <<"|"," ","C","o","l"," ","A"," ","|"," ","C","o","l"," ","B"," ","|">>,
       <<"|"," ",":","-","-","-"," ","|"," ","-","-","-",":"," ","|">>,
       <<"|"," ","o","n","e"," ","|"," ","1"," ","|">>,
       <<"|"," ","t","w","o"," ","|"," ","2"," ","|">> >>

\* the four table lines of the starter document
StarterTable == SubSeq(StarterLines, 5, 8)

\* the text App.__init__ inserts into the editor
StarterText == join(<<NL>>, StarterLines) \o <<NL>>

\* the text of the status label: a message and the number it mentions
Status(msg, n) == [msg |-> msg, n |-> n]

\* the application as one value, so that a handler that calls another is the
\* composition of the two
Cur ==
    [editor |-> editor, current_tables |-> current_tables,
     current_table_index |-> current_table_index,
     picker_values |-> picker_values, picker_current |-> picker_current,
     table_cols |-> table_cols, tree_columns |-> tree_columns,
     tree_rows |-> tree_rows, clipboard |-> clipboard, status |-> status,
     reported |-> reported]

Is(S) ==
    /\ editor = S.editor
    /\ current_tables = S.current_tables
    /\ current_table_index = S.current_table_index
    /\ picker_values = S.picker_values
    /\ picker_current = S.picker_current
    /\ table_cols = S.table_cols
    /\ tree_columns = S.tree_columns
    /\ tree_rows = S.tree_rows
    /\ clipboard = S.clipboard
    /\ status = S.status
    /\ reported = S.reported

Becomes(S) ==
    /\ editor' = S.editor
    /\ current_tables' = S.current_tables
    /\ current_table_index' = S.current_table_index
    /\ picker_values' = S.picker_values
    /\ picker_current' = S.picker_current
    /\ table_cols' = S.table_cols
    /\ tree_columns' = S.tree_columns
    /\ tree_rows' = S.tree_rows
    /\ clipboard' = S.clipboard
    /\ status' = S.status
    /\ reported' = S.reported

\* the widgets as App.__init__ builds them, before any content is loaded
Constructed ==
    [editor |-> <<>>, current_tables |-> <<>>, current_table_index |-> None,
     picker_values |-> <<>>, picker_current |-> -1, table_cols |-> <<>>,
     tree_columns |-> <<>>, tree_rows |-> <<>>, clipboard |-> None,
     status |-> Status("Ready", 0), reported |-> None]

\* the harness of a function under check leaves the application alone
AppIdle == Is(Constructed)

\* all sequences over S of length 0..n
RECURSIVE SeqsUpTo(_, _)
SeqsUpTo(S, n) ==
    IF n = 0 THEN {<<>>}
    ELSE LET shorter == SeqsUpTo(S, n - 1)
         IN  shorter \cup {Append(q, x) : q \in {r \in shorter : Len(r) = n - 1}, x \in S}

-----------------------------------------------------------------------------
(* find_tables applied to every text of at most MaxFindLines lines drawn   *)
(* from FindLines: an empty line, a whitespace-only line, a line of plain  *)
(* text, a table row that is no separator, and a separator row.            *)

MaxFindLines == 5

FindLines ==
    { <<>>,
      <<SP>>,
      <<"a">>,
      <<BAR, "a", BAR>>,
      <<BAR, DASH, DASH, BAR>> }

FindInit ==
    /\ AppIdle
    /\ pc = "input"
    /\ inp \in {join(<<NL>>, ls) : ls \in SeqsUpTo(FindLines, MaxFindLines)}
    /\ out = <<>>

CallFindTables ==
    /\ pc = "input"
    /\ pc' = "found"
    /\ out' = find_tables(inp)
    /\ UNCHANGED <<inp, appvars>>

FindNext == CallFindTables

SpecFind == FindInit /\ [][FindNext]_vars

\* lines a to b-1 (0-based) form one whole valid table
IsTableBlock(lines, a, b) ==
    /\ a + 2 <= b
    /\ parse_pipe_table(SubSeq(lines, a + 1, b), 0).t # None
    /\ parse_pipe_table(SubSeq(lines, a + 1, b), 0).i = b - a

\* two valid tables separated by one blank line, and nothing else
TwoTablesAt(lines, k) ==
    /\ IsTableBlock(lines, 0, k)
    /\ strip(lines[k + 1]) = <<>>
    /\ IsTableBlock(lines, k + 1, Len(lines))

\* C4: the regions find_tables returns are in increasing order, each with
\* 0 <= start, start + 2 <= end <= number of lines, and each region ends at or
\* before the start of the next one; two valid tables separated by a blank
\* line give exactly the two regions of those tables.
C4_NonOverlap ==
    pc = "found" =>
        LET lines == splitlines(inp)
            n == Len(lines)
        IN  /\ \A k \in 1..Len(out) :
                  /\ 0 <= out[k].start
                  /\ out[k].start + 2 <= out[k].end
                  /\ out[k].end <= n
                  /\ k < Len(out) => out[k].end <= out[k + 1].start
            /\ \A k \in 2..(n - 3) :
                  TwoTablesAt(lines, k) =>
                      /\ Len(out) = 2
                      /\ out[1].start = 0 /\ out[1].end = k
                      /\ out[2].start = k + 1 /\ out[2].end = n

\* two tables separated by a blank line were found as two regions
C4_Witness ==
    /\ pc = "found"
    /\ Len(out) = 2
    /\ \E k \in 2..(Len(splitlines(inp)) - 3) : TwoTablesAt(splitlines(inp), k)

-----------------------------------------------------------------------------
(* parse_pipe_table applied at every start index of every list of at most  *)
(* MaxParseLines lines drawn from ParseLines, and of the starter table;    *)
(* to_markdown applied to every table it returns.                          *)

MaxParseLines == 3

ParseLines ==
    { <<>>,                                                       \* empty
      <<"a">>,                                                    \* no "|"
      <<BAR, "a", BAR, "b">>,                                     \* |a|b
      <<BAR, DASH, DASH, BAR>>,                                   \* |--|
      <<COLON, DASH, DASH, BAR, DASH, DASH, COLON>>,              \* :--|--:
      <<BAR, COLON, DASH, DASH, COLON, BAR, SP, DASH, DASH, DASH, SP, BAR, DASH, DASH, COLON>>,
                                                                  \* |:--:| --- |--:
      <<BAR, SP, DASH, DASH, DASH, SP, BAR, SP, "a", "b", "c", SP, BAR>>,
                                                                  \* | --- | abc |
      <<BAR, COLON, DASH, COLON, BAR>> }                          \* |:-:|

ParseInit ==
    /\ AppIdle
    /\ pc = "input"
    /\ inp \in SeqsUpTo(ParseLines, MaxParseLines) \cup {StarterTable}
    /\ out = <<>>

CallParsePipeTable ==
    /\ pc = "input"
    /\ \E start \in 0..Len(inp) :
           out' = [start |-> start, r |-> parse_pipe_table(inp, start)]
    /\ pc' = "parsed"
    /\ UNCHANGED <<inp, appvars>>

CallToMarkdown ==
    /\ pc = "parsed"
    /\ out.r.t # None
    /\ out' = [start |-> out.start, r |-> out.r, md |-> to_markdown(out.r.t[1])]
    /\ pc' = "rendered"
    /\ UNCHANGED <<inp, appvars>>

ParseNext == CallParsePipeTable \/ CallToMarkdown

SpecParse == ParseInit /\ [][ParseNext]_vars

\* a line that belongs to a table run: it contains "|" and is not blank
IsTableLine(l) ==
    /\ \E k \in 1..Len(l) : l[k] = BAR
    /\ \E k \in 1..Len(l) : l[k] \notin Whitespace

\* the length of the maximal run of table lines that begins at start
RunLength(lines, start) ==
    CHOOSE k \in 0..(Len(lines) - start) :
        /\ \A j \in 1..k : IsTableLine(lines[start + j])
        /\ k = Len(lines) - start \/ ~ IsTableLine(lines[start + k + 1])

\* optional ":", k dashes, optional ":"
SepCell(lead, k, trail) ==
    (IF lead THEN <<COLON>> ELSE <<>>) \o Rep(DASH, k) \o (IF trail THEN <<COLON>> ELSE <<>>)

SepPattern(cell) ==
    \E lead \in BOOLEAN, trail \in BOOLEAN, k \in 2..Len(cell) :
        cell = SepCell(lead, k, trail)

\* C5: parse_pipe_table returns (none, start) when the run of table lines at
\* start has fewer than 2 lines or a cell of its second line fails the
\* separator pattern; otherwise it returns a table and the index one past the
\* last line of the run.
C5_ParseFailsOrConsumesRun ==
    pc = "parsed" =>
        LET start == out.start
            run == RunLength(inp, start)
            bad == \/ run < 2
                   \/ \E k \in 1..Len(split_row(inp[start + 2])) :
                          ~ SepPattern(split_row(inp[start + 2])[k])
        IN  /\ bad => out.r = [t |-> None, i |-> start]
            /\ ~ bad => out.r.t # None /\ out.r.i = start + run

\* the second line "| --- | abc |" made the parse of a two-line run fail
C5_Witness ==
    /\ pc = "parsed"
    /\ RunLength(inp, out.start) >= 2
    /\ inp[out.start + 2] = <<BAR, SP, DASH, DASH, DASH, SP, BAR, SP, "a", "b", "c", SP, BAR>>
    /\ out.r = [t |-> None, i |-> out.start]

\* the alignment a separator cell of the given shape stands for
AlignFor(lead, trail) ==
    IF lead /\ trail THEN "center" ELSE IF trail THEN "right" ELSE "left"

\* C6: a parsed table has one alignment per separator cell, and alignment i
\* is decided by the colons of separator cell i: both give center, a trailing
\* one alone gives right, a leading one alone or none gives left.
C6_AlignmentMapping ==
    (pc = "parsed" /\ out.r.t # None) =>
        LET sep == split_row(inp[out.start + 2])
            aligns == out.r.t[1].aligns
        IN  /\ Len(aligns) = Len(sep)
            /\ \A i \in 1..Len(sep) :
                   \E lead \in BOOLEAN, trail \in BOOLEAN, k \in 2..Len(sep[i]) :
                       /\ sep[i] = SepCell(lead, k, trail)
                       /\ aligns[i] = AlignFor(lead, trail)

\* a table with a center, a left and a right column was parsed
C6_Witness ==
    /\ pc = "parsed"
    /\ out.r.t # None
    /\ \E i, j, k \in 1..Len(out.r.t[1].aligns) :
           /\ out.r.t[1].aligns[i] = "center"
           /\ out.r.t[1].aligns[j] = "right"
           /\ out.r.t[1].aligns[k] = "left"

\* the table the starter lines hold
StarterParsed ==
    MarkdownTable(
        << <<"C","o","l"," ","A">>, <<"C","o","l"," ","B">> >>,
        <<"left", "right">>,
        << << <<"o","n","e">>, <<"1">> >>, << <<"t","w","o">>, <<"2">> >> >>)

\* the canonical text of that table: both columns padded to width 5
StarterCanonical ==
    join(<<NL>>,
      << <<"|"," ","C","o","l"," ","A"," ","|"," ","C","o","l"," ","B"," ","|">>,
         <<"|",":","-","-","-","-","-","-","|","-","-","-","-","-","-",":","|">>,
         <<"|"," ","o","n","e"," "," "," ","|"," ","1"," "," "," "," "," ","|">>,
         <<"|"," ","t","w","o"," "," "," ","|"," ","2"," "," "," "," "," ","|">> >>)

\* C3 as stated: the starter table parses to header [Col A, Col B], aligns
\* [left, right], rows [[one, 1], [two, 2]], and to_markdown of the parsed
\* table returns the four input lines byte for byte.
C3_RenderReproducesInput ==
    /\ (pc = "parsed" /\ inp = StarterTable /\ out.start = 0) =>
           out.r = [t |-> Some(StarterParsed), i |-> 4]
    /\ (pc = "rendered" /\ inp = StarterTable /\ out.start = 0) =>
           out.md = join(<<NL>>, StarterTable)

\* C3 as amended: the starter table parses to header [Col A, Col B], aligns
\* [left, right], rows [[one, 1], [two, 2]], and to_markdown of the parsed
\* table returns the canonical text, whose header line is the input's and whose
\* separator and data lines are padded to the column width 5.
C3_RenderIsCanonical ==
    /\ (pc = "parsed" /\ inp = StarterTable /\ out.start = 0) =>
           out.r = [t |-> Some(StarterParsed), i |-> 4]
    /\ (pc = "rendered" /\ inp = StarterTable /\ out.start = 0) =>
           /\ out.md = StarterCanonical
           /\ splitlines(out.md)[1] = StarterTable[1]
           /\ \A k \in 2..4 : splitlines(out.md)[k] # StarterTable[k]

\* the starter table was parsed from its first line and rendered
C3_Witness ==
    /\ pc = "rendered"
    /\ inp = StarterTable
    /\ out.start = 0
    /\ out.r.t = Some(StarterParsed)

-----------------------------------------------------------------------------
(* to_markdown applied to every table with at most MaxCols columns and     *)
(* MaxRows rows: header cells of length 0 and 2, alignments given for      *)
(* every column or for none, rows that are shorter or longer than the      *)
(* header with cells of length 0 to 3, and a cell that holds a line break. *)

MaxCols == 2
MaxRows == 2

Aligns == {"left", "right", "center"}

HeaderCells == { <<>>, <<"b", "c">> }

RenderRows ==
    { <<>>,
      << <<"a">> >>,
      << <<"b", "c">>, <<>> >>,
      << <<>>, <<"a">>, <<"b", "c">> >>,
      << <<"a", NL, "b">>, <<"a">> >> }

RenderTables ==
    { MarkdownTable(h, a, rs) :
        h \in SeqsUpTo(HeaderCells, MaxCols),
        a \in SeqsUpTo(Aligns, MaxCols),
        rs \in SeqsUpTo(RenderRows, MaxRows) }

RenderInit ==
    /\ AppIdle
    /\ pc = "input"
    /\ inp \in {t \in RenderTables : Len(t.aligns) \in {0, Len(t.header)}}
    /\ out = <<>>

CallRender ==
    /\ pc = "input"
    /\ pc' = "rendered"
    /\ out' = to_markdown(inp)
    /\ UNCHANGED <<inp, appvars>>

RenderNext == CallRender

SpecRender == RenderInit /\ [][RenderNext]_vars

\* the largest length among header cell i and cell i of every row
ColumnWidth(t, i) ==
    LET lens == {Len(t.header[i])} \cup
                {IF i <= Len(t.rows[k]) THEN Len(t.rows[k][i]) ELSE 0 : k \in 1..Len(t.rows)}
    IN  CHOOSE m \in lens : \A l \in lens : l <= m

RECURSIVE SumTo(_, _)
SumTo(f, n) == IF n = 0 THEN 0 ELSE f[n] + SumTo(f, n - 1)

\* the position of the "|" that opens column i in a rendered line, given the
\* column widths w: "|" and, per earlier column, " cell |"
ColumnStart(w, i) == 1 + SumTo([j \in 1..(i - 1) |-> w[j] + 3], i - 1)

\* the common length of the rendered lines
LineLength(w) == IF Len(w) = 0 THEN 2 ELSE ColumnStart(w, Len(w) + 1)

\* the k-th of the newline-joined lines of the text, all of length ll
LineAt(text, ll, k) == SubSeq(text, (k - 1) * (ll + 1) + 1, k * (ll + 1) - 1)

\* line is "|" followed, for each column, by " ", the cell, spaces up to the
\* column width, " " and "|"
IsRowLine(w, line, cells) ==
    /\ Len(line) = LineLength(w)
    /\ line[1] = BAR
    /\ line[Len(line)] = BAR
    /\ \A i \in 1..Len(w) :
           LET c == IF i <= Len(cells) THEN cells[i] ELSE <<>>
               p == ColumnStart(w, i)
           IN  /\ line[p] = BAR
               /\ line[p + 1] = SP
               /\ SubSeq(line, p + 2, p + 1 + Len(c)) = c
               /\ \A q \in (p + 2 + Len(c))..(p + 2 + w[i]) : line[q] = SP
               /\ line[p + 3 + w[i]] = BAR

IsSeparatorLine(w, line, aligns) ==
    /\ Len(line) = LineLength(w)
    /\ line[1] = BAR
    /\ line[Len(line)] = BAR
    /\ \A i \in 1..Len(w) :
           LET a == IF i <= Len(aligns) THEN aligns[i] ELSE "left"
               p == ColumnStart(w, i)
           IN  /\ line[p] = BAR
               /\ SubSeq(line, p + 1, p + 2 + w[i]) =
                      (IF a = "left" THEN SepCell(TRUE, w[i] + 1, FALSE)
                       ELSE IF a = "right" THEN SepCell(FALSE, w[i] + 1, TRUE)
                       ELSE SepCell(TRUE, w[i], TRUE))
               /\ line[p + 3 + w[i]] = BAR

\* C7: to_markdown returns 2 + len(rows) lines of equal length joined by
\* newlines, with no newline at the end: the header line, the separator line
\* and one line per row; each row line has N cells, each a space, the cell
\* left-justified to the column width and a space between "|" (missing cells
\* empty, cells beyond N ignored); separator cell i is ":" and width+1 dashes
\* for left, width+1 dashes and ":" for right, ":" width dashes ":" for center.
C7_CanonicalRendering ==
    pc = "rendered" =>
        LET t == inp
            n == 2 + Len(t.rows)
            w == [i \in 1..Len(t.header) |-> ColumnWidth(t, i)]
            ll == LineLength(w)
        IN  /\ Len(out) = n * ll + (n - 1)
            /\ \A k \in 1..(n - 1) : out[k * (ll + 1)] = NL
            /\ IsRowLine(w, LineAt(out, ll, 1), t.header)
            /\ IsSeparatorLine(w, LineAt(out, ll, 2), t.aligns)
            /\ \A k \in 1..Len(t.rows) : IsRowLine(w, LineAt(out, ll, k + 2), t.rows[k])
            /\ (\A k \in 1..Len(t.rows) : \A i \in 1..Len(t.rows[k]) :
                    ~ contains(t.rows[k][i], NL))
               => /\ Len(splitlines(out)) = n
                  /\ \A k \in 1..n : Len(splitlines(out)[k]) = ll

\* a table of two columns, one centered, with a short and a long row was rendered
C7_Witness ==
    /\ pc = "rendered"
    /\ Len(inp.header) = 2
    /\ \E i \in 1..Len(inp.aligns) : inp.aligns[i] = "center"
    /\ \E k \in 1..Len(inp.rows) : Len(inp.rows[k]) < 2
    /\ \E k \in 1..Len(inp.rows) : Len(inp.rows[k]) > 2
    /\ ColumnWidth(inp, 1) # Len(inp.header[1])

-----------------------------------------------------------------------------
(* The round trip: to_markdown applied to every rectangular table of 1 to  *)
(* MaxCols columns and up to MaxRows rows, with one alignment per column   *)
(* and cells of length 0, 1 and 2 that hold no "|" and no blank; then      *)
(* find_tables on the text, and up to MaxCycles cycles of parse_pipe_table *)
(* on its lines and to_markdown on the table parsed.                       *)

MaxCycles == 2

RoundTripCells == { <<>>, <<"a">>, <<"b", "c">> }

RoundTripTables ==
    UNION { { MarkdownTable(h, a, rs) :
                h \in [1..n -> RoundTripCells],
                a \in [1..n -> Aligns],
                rs \in SeqsUpTo([1..n -> RoundTripCells], MaxRows) } : n \in 1..MaxCols }

RoundTripInit ==
    /\ AppIdle
    /\ pc = "input"
    /\ inp \in RoundTripTables
    /\ out = <<>>

CallRenderTable ==
    /\ pc = "input"
    /\ pc' = "rendered"
    /\ out' = [md0 |-> to_markdown(inp), md |-> to_markdown(inp), cycles |-> 0]
    /\ UNCHANGED <<inp, appvars>>

CallFindRendered ==
    /\ pc = "rendered"
    /\ pc' = "found"
    /\ out' = [md0 |-> out.md0, md |-> out.md, cycles |-> out.cycles,
               regions |-> find_tables(out.md)]
    /\ UNCHANGED <<inp, appvars>>

\* one cycle: parse the lines of the text from line 0, render what was parsed;
\* when parse_pipe_table returns None there is no table to render
CallParseAndRender ==
    /\ pc \in {"rendered", "cycled"}
    /\ out.cycles < MaxCycles
    /\ LET r == parse_pipe_table(splitlines(out.md), 0)
       IN  IF r.t = None
           THEN /\ pc' = "no_table"
                /\ out' = out
           ELSE /\ pc' = "cycled"
                /\ out' = [md0 |-> out.md0, md |-> to_markdown(r.t[1]),
                           cycles |-> out.cycles + 1]
    /\ UNCHANGED <<inp, appvars>>

RoundTripNext == CallRenderTable \/ CallFindRendered \/ CallParseAndRender

SpecRoundTrip == RoundTripInit /\ [][RoundTripNext]_vars

\* C1: for a table with a non-empty header, find_tables on its rendering
\* returns exactly one region, whose table has the same header, the same rows
\* and the same alignments.
C1_RoundTrip ==
    (pc = "found" /\ Len(inp.header) >= 1) =>
        /\ Len(out.regions) = 1
        /\ out.regions[1].table.header = inp.header
        /\ out.regions[1].table.rows = inp.rows
        /\ out.regions[1].table.aligns = inp.aligns

\* C2: parse_pipe_table on the lines of a rendering returns a table, and
\* rendering that table reproduces the text byte for byte, cycle after cycle.
C2_Idempotent ==
    /\ pc # "no_table"
    /\ pc = "cycled" => out.md = out.md0

-----------------------------------------------------------------------------
(* The handlers of class App that work on the document and its tables.     *)
(* Each is a function from the application's state to its next state; the  *)
(* preview pane, the file path and the settings file are not part of the   *)
(* state.  A message box or an exception that ends the handler is kept in  *)
(* reported.                                                               *)

ClearReport(S) == [S EXCEPT !.reported = None]

Show(S, via, text) == [S EXCEPT !.reported = Some([via |-> via, text |-> text])]

Digits == <<"0", "1", "2", "3", "4", "5", "6", "7", "8", "9">>

\* str(n) for n >= 0
RECURSIVE str_int(_)
str_int(n) ==
    IF n < 10 THEN <<Digits[n + 1]>>
    ELSE str_int(n \div 10) \o <<Digits[(n % 10) + 1]>>

\* the heading of column i (0-based): h or f"Column {i+1}"
heading_text(h, i) ==
    IF h # <<>> THEN h ELSE <<"C", "o", "l", "u", "m", "n", SP>> \o str_int(i + 1)

rebuild_tree_columns(S, headers) ==
    [S EXCEPT !.tree_columns =
        [i \in 1..Len(headers) |-> heading_text(headers[i], i - 1)]]

load_table_into_grid(S) ==
    LET sel == S.picker_current
    IN  IF sel < 0 THEN S
        ELSE LET S1 == [S EXCEPT !.current_table_index = Some(sel)]
             IN  IF sel >= Len(S.current_tables)
                 THEN Show(S1, "traceback", "IndexError")
                 ELSE LET t == S.current_tables[sel + 1].table
                          cols == Len(t.header)
                          S2 == rebuild_tree_columns(
                                    [S1 EXCEPT !.table_cols = [i \in 1..cols |-> i - 1]],
                                    t.header)
                      IN  [S2 EXCEPT !.tree_rows =
                              [k \in 1..Len(t.rows) |->
                                  [i \in 1..cols |-> cell_of(t.rows[k], i - 1)]]]

\* f"{idx+1}: {header_preview}"
picker_label(idx, t) ==
    str_int(idx + 1) \o <<COLON, SP>> \o
    (IF t.header # <<>> THEN join(<<SP, BAR, SP>>, t.header)
     ELSE <<"T", "a", "b", "l", "e", SP>> \o str_int(idx + 1))

\* detect_tables once find_tables has returned found
show_tables(S, found) ==
    IF found = <<>>
    THEN Show(rebuild_tree_columns(
                  [S EXCEPT !.current_tables = found,
                            !.picker_values = <<>>,
                            !.picker_current = -1], <<>>),
              "showinfo", "No pipe tables found in the document.")
    ELSE load_table_into_grid(
             [S EXCEPT !.current_tables = found,
                       !.picker_values =
                           [k \in 1..Len(found) |-> picker_label(k - 1, found[k].table)],
                       !.picker_current = 0,
                       !.current_table_index = Some(0)])

detect_tables(S) == show_tables(S, find_tables(S.editor))

new_file(S) ==
    rebuild_tree_columns(
        [S EXCEPT !.editor = <<>>,
                  !.status = Status("New file", 0),
                  !.current_tables = <<>>,
                  !.picker_values = <<>>,
                  !.picker_current = -1,
                  !.table_cols = <<>>],
        <<>>)

\* load_file when the file was read: text is its content
load_file(S, text) ==
    detect_tables([S EXCEPT !.editor = text, !.status = Status("path", 0)])

\* load_file when open() or read() raised
load_file_failed(S) == Show(S, "showerror", "Failed to open file")

\* the "Add Row" button
add_row(S) ==
    [S EXCEPT !.tree_rows = Append(@, [i \in 1..Len(S.table_cols) |-> <<>>])]

\* the text commit_table_to_md writes into the editor for region reg
\* combined: the three parts, a "\n" after md_before and before md_after when
\* the part is not empty
combined(md_before, new_md_table, md_after) ==
    (IF md_before # <<>> THEN md_before \o <<NL>> ELSE <<>>)
    \o new_md_table
    \o (IF md_after # <<>> THEN <<NL>> \o md_after ELSE <<>>)

\* the splice of new_md_table into the lines of the document
splice(lines, reg, new_md_table) ==
    combined(join(<<NL>>, slice(lines, 0, reg.start)),
             new_md_table,
             join(<<NL>>, slice(lines, reg.end, Len(lines))))

commit_text(md, reg, headers, rows) ==
    splice(splitlines(md), reg,
           to_markdown(MarkdownTable(headers, reg.table.aligns, rows)))

\* commit_table_to_md from the rebuilt text on: set the editor, detect, status
commit_done(S, text) ==
    [detect_tables([S EXCEPT !.editor = text])
        EXCEPT !.status = Status("Table committed back to Markdown", 0)]

commit_table_to_md(S) ==
    IF S.current_table_index = None
    THEN Show(S, "showinfo", "No table selected.")
    ELSE IF S.current_table_index[1] >= Len(S.current_tables)
    THEN Show(S, "traceback", "IndexError")
    ELSE commit_done(S, commit_text(S.editor,
                                    S.current_tables[S.current_table_index[1] + 1],
                                    S.tree_columns, S.tree_rows))

-----------------------------------------------------------------------------
(* The grid and the clipboard: edit_cell, copy_all, copy_selection,        *)
(* _clipboard_copy, paste_rows and the helpers _escape_csv,                *)
(* _parse_delimited and _header_matches.  The values of a tree item are    *)
(* the strings stored in it.                                               *)

\* the <Return> of the entry edit_cell places over cell (row, col)
edit_cell(S, row, col, value) ==
    [S EXCEPT !.tree_rows[row + 1][col + 1] = value]

\* s.replace('"', '""')
RECURSIVE double_quotes(_)
double_quotes(s) ==
    IF s = <<>> THEN <<>>
    ELSE (IF s[1] = QUOTE THEN <<QUOTE, QUOTE>> ELSE <<s[1]>>) \o double_quotes(Tail(s))

\* _escape_csv wrapping the cell without doubling its double quotes
escape_csv_undoubled(s) ==
    IF \E k \in 1..Len(s) : s[k] \in {COMMA, QUOTE, NL, CR}
    THEN <<QUOTE>> \o s \o <<QUOTE>>
    ELSE s

_escape_csv(s) ==
    IF \E k \in 1..Len(s) : s[k] \in {COMMA, QUOTE, NL, CR}
    THEN <<QUOTE>> \o double_quotes(s) \o <<QUOTE>>
    ELSE s

\* ",".join(_escape_csv(x) for x in cells)
csv_line(cells) == join(<<COMMA>>, [k \in 1..Len(cells) |-> _escape_csv(cells[k])])

\* the text of the csv branch: the header line, then one line per row
csv_text(headers, rows) ==
    join(<<NL>>, <<csv_line(headers)>> \o [k \in 1..Len(rows) |-> csv_line(rows[k])])

\* the text of the md branch
md_text(headers, rows) ==
    to_markdown(MarkdownTable(headers, [i \in 1..Len(headers) |-> "left"], rows))

_clipboard_copy(S, rows, fmt) ==
    [S EXCEPT !.clipboard = Some(IF fmt = "md" THEN md_text(S.tree_columns, rows)
                                 ELSE csv_text(S.tree_columns, rows)),
              !.status = Status(IF fmt = "md" THEN "Copied row(s) to clipboard as MD"
                                ELSE "Copied row(s) to clipboard as CSV", Len(rows))]

\* sel: the selected rows, as 0-based positions in the order of the tree
copy_selection(S, sel, fmt) ==
    IF sel = <<>> THEN Show(S, "showinfo", "No rows selected.")
    ELSE _clipboard_copy(S, [k \in 1..Len(sel) |-> S.tree_rows[sel[k] + 1]], fmt)

copy_all(S, fmt) ==
    IF S.tree_rows = <<>> THEN Show(S, "showinfo", "No table loaded.")
    ELSE _clipboard_copy(S, S.tree_rows, fmt)

\* csv.reader with the excel dialect and the given delimiter.  The reader is
\* (state, field, fields); the lines come from splitlines and hold no line
\* break.
ParseReset == [state |-> "START_RECORD", field |-> <<>>, fields |-> <<>>]

parse_add_char(p, c, next) == [p EXCEPT !.field = Append(@, c), !.state = next]

parse_save_field(p, next) ==
    [p EXCEPT !.fields = Append(@, p.field), !.field = <<>>, !.state = next]

\* parse_process_char for a character of the line
parse_process_char(p, c, delimiter) ==
    IF p.state \in {"START_RECORD", "START_FIELD"}
    THEN IF c = QUOTE THEN [p EXCEPT !.state = "IN_QUOTED_FIELD"]
         ELSE IF c = delimiter THEN parse_save_field(p, "START_FIELD")
         ELSE parse_add_char(p, c, "IN_FIELD")
    ELSE IF p.state = "IN_FIELD"
    THEN IF c = delimiter THEN parse_save_field(p, "START_FIELD")
         ELSE parse_add_char(p, c, "IN_FIELD")
    ELSE IF p.state = "IN_QUOTED_FIELD"
    THEN IF c = QUOTE THEN [p EXCEPT !.state = "QUOTE_IN_QUOTED_FIELD"]
         ELSE parse_add_char(p, c, "IN_QUOTED_FIELD")
    ELSE \* QUOTE_IN_QUOTED_FIELD
         IF c = QUOTE THEN parse_add_char(p, c, "IN_QUOTED_FIELD")
         ELSE IF c = delimiter THEN parse_save_field(p, "START_FIELD")
         ELSE parse_add_char(p, c, "IN_FIELD")

\* parse_process_char for the end of the line
parse_process_eol(p) ==
    IF p.state \in {"START_RECORD", "IN_QUOTED_FIELD"} THEN p
    ELSE parse_save_field(p, "START_RECORD")

RECURSIVE parse_line(_, _, _)
parse_line(p, line, delimiter) ==
    IF line = <<>> THEN parse_process_eol(p)
    ELSE parse_line(parse_process_char(p, line[1], delimiter), Tail(line), delimiter)

RECURSIVE reader_loop(_, _, _, _)

\* after a line: the record is complete when the reader is at START_RECORD
reader_next(p, lines, delimiter, rows) ==
    IF p.state = "START_RECORD"
    THEN reader_loop(ParseReset, lines, delimiter, Append(rows, p.fields))
    ELSE reader_loop(p, lines, delimiter, rows)

\* at the end of the input an open quoted field is saved
reader_loop(p, lines, delimiter, rows) ==
    IF lines = <<>>
    THEN IF p.field # <<>> \/ p.state = "IN_QUOTED_FIELD"
         THEN Append(rows, Append(p.fields, p.field))
         ELSE rows
    ELSE reader_next(parse_line(p, lines[1], delimiter), Tail(lines), delimiter, rows)

_parse_delimited(text, delimiter) ==
    reader_loop(ParseReset, splitlines(text), delimiter, <<>>)

UpperCase ==
    <<"A", "B", "C", "D", "E", "F", "G", "H", "I", "J", "K", "L", "M",
      "N", "O", "P", "Q", "R", "S", "T", "U", "V", "W", "X", "Y", "Z">>

LowerCase ==
    <<"a", "b", "c", "d", "e", "f", "g", "h", "i", "j", "k", "l", "m",
      "n", "o", "p", "q", "r", "s", "t", "u", "v", "w", "x", "y", "z">>

\* s.lower()
lower(s) ==
    [k \in 1..Len(s) |->
        IF \E u \in DOMAIN UpperCase : UpperCase[u] = s[k]
        THEN LowerCase[CHOOSE u \in DOMAIN UpperCase : UpperCase[u] = s[k]]
        ELSE s[k]]

\* [str(c).strip().lower() for c in row]
row_norm(row) == [k \in 1..Len(row) |-> lower(strip(row[k]))]

_header_matches(row, headers) == row_norm(row) = row_norm(headers)

\* the rows paste_rows reads from the clipboard text
clipboard_rows(text, rows) ==
    IF Len(rows) <= 1 THEN _parse_delimited(text, TAB) ELSE rows

\* the loop of paste_rows over rows[start_idx:]
insert_rows(S, rows) ==
    [S EXCEPT !.tree_rows =
                  @ \o [k \in 1..Len(rows) |->
                           [i \in 1..Len(S.tree_columns) |-> cell_of(rows[k], i - 1)]],
              !.status = Status("Pasted row(s) from clipboard", Len(rows))]

\* paste_rows once the rows are read
paste_parsed(S, rows) ==
    IF rows = <<>>
    THEN Show(S, "showerror", "Clipboard does not appear to contain CSV or TSV data.")
    ELSE insert_rows(S, IF _header_matches(rows[1], S.tree_columns)
                        THEN Tail(rows) ELSE rows)

paste_rows(S) ==
    IF S.clipboard = None
    THEN Show(S, "showinfo", "Clipboard is empty or not text.")
    ELSE paste_parsed(S, clipboard_rows(S.clipboard[1],
                                        _parse_delimited(S.clipboard[1], COMMA)))

-----------------------------------------------------------------------------
(* The grid handlers under check: a file is loaded, the clipboard holds    *)
(* nothing or a text, the user edits cells, and one of copy_all,           *)
(* copy_selection and paste_rows is called.  pc is the handler called, inp *)
(* what it was called with and the rows of the grid before the call.       *)

\* "|a|", "|--|": a table of one column and no row
DocOneColumn == join(<<NL>>, << <<BAR, "a", BAR>>, <<BAR, DASH, DASH, BAR>> >>)

GridDocs == {StarterText, DocOneColumn}

\* the cell of the example: He said "hi", ok
ExampleCell ==
    <<"H", "e", SP, "s", "a", "i", "d", SP, QUOTE, "h", "i", QUOTE, COMMA, SP, "o", "k">>

\* what the user types into a cell
EditValues == {ExampleCell, <<"a", NL, "b">>, <<CR>>}

\* texts on the clipboard
ClipTexts ==
    { <<"C", "o", "l", SP, "A", COMMA, "C", "o", "l", SP, "B">>,
      <<SP, "c", "o", "l", SP, "a", SP, COMMA, "C", "O", "L", SP, "B", NL, "x", COMMA, "1">>,
      <<"x", COMMA, "1">>,
      <<"x", COMMA, "1", NL, "y", COMMA, "2", COMMA, "3">>,
      <<"A", SP, NL, NL, "b">>,
      <<"a">>,
      <<"a", TAB, "b">>,
      <<QUOTE, "a", COMMA, QUOTE, QUOTE, "b", QUOTE, COMMA, "c", NL, "d">>,
      <<>> }

Formats == {"csv", "md"}

\* the selections of a tree of n rows: nothing, one row, every row
Selections(n) == {<<>>} \cup {<<i>> : i \in 0..(n - 1)} \cup {[k \in 1..n |-> k - 1]}

GridInit ==
    /\ \E text \in GridDocs, clip \in {None} \cup {Some(t) : t \in ClipTexts} :
           Is([load_file(Constructed, text) EXCEPT !.clipboard = clip])
    /\ pc = "idle"
    /\ inp = <<>>
    /\ out = <<>>

\* a double click on a cell, a value typed, <Return>
DoEditCell ==
    /\ pc = "idle"
    /\ \E row \in 0..(Len(tree_rows) - 1), col \in 0..(Len(tree_columns) - 1),
          value \in EditValues :
           Becomes(edit_cell(Cur, row, col, value))
    /\ UNCHANGED harness

\* the buttons "Copy All (CSV)" and "Copy All (Markdown)"
DoCopyAll ==
    /\ pc = "idle"
    /\ \E fmt \in Formats :
           /\ Becomes(copy_all(ClearReport(Cur), fmt))
           /\ inp' = [fmt |-> fmt, sel |-> [k \in 1..Len(tree_rows) |-> k - 1]]
    /\ pc' = "copy_all"
    /\ out' = out

\* the button "Copy Selection (CSV)"
DoCopySelection ==
    /\ pc = "idle"
    /\ \E sel \in Selections(Len(tree_rows)) :
           /\ Becomes(copy_selection(ClearReport(Cur), sel, "csv"))
           /\ inp' = [fmt |-> "csv", sel |-> sel]
    /\ pc' = "copy_selection"
    /\ out' = out

\* the button "Paste Rows (CSV/TSV)"
DoPasteRows ==
    /\ pc = "idle"
    /\ Becomes(paste_rows(ClearReport(Cur)))
    /\ inp' = [rows |-> tree_rows]
    /\ pc' = "paste_rows"
    /\ out' = out

GridNext ==
    \/ DoEditCell
    \/ DoCopyAll
    \/ DoCopySelection
    \/ DoPasteRows

SpecGrid == GridInit /\ [][GridNext]_vars

\* the cell between double quotes, each of its double quotes written twice
Quoted(cell) ==
    <<QUOTE>>
    \o join(<<>>, [k \in 1..Len(cell) |->
                      IF cell[k] = QUOTE THEN <<QUOTE, QUOTE>> ELSE <<cell[k]>>])
    \o <<QUOTE>>

\* a cell is quoted exactly when it holds a comma, a double quote, "\n" or "\r"
Field(cell) ==
    IF \E k \in 1..Len(cell) : cell[k] \in {COMMA, QUOTE, NL, CR}
    THEN Quoted(cell) ELSE cell

CommaJoined(cells) == join(<<COMMA>>, [k \in 1..Len(cells) |-> Field(cells[k])])

\* the rows a copy was called with
CopiedRows == [k \in 1..Len(inp.sel) |-> tree_rows[inp.sel[k] + 1]]

CopiedCsv == pc \in {"copy_all", "copy_selection"} /\ inp.fmt = "csv" /\ inp.sel # <<>>

ExampleEncoded ==
    <<QUOTE, "H", "e", SP, "s", "a", "i", "d", SP, QUOTE, QUOTE, "h", "i", QUOTE, QUOTE,
      COMMA, SP, "o", "k", QUOTE>>

\* C8: the CSV text on the clipboard is the header line followed by one line
\* per copied row, the lines joined by "\n" and the cells of a line by ",";
\* a cell is wrapped in double quotes with its double quotes doubled exactly
\* when it holds a comma, a double quote, "\n" or "\r", and is verbatim
\* otherwise.
C8_CsvQuoting ==
    CopiedCsv =>
        clipboard = Some(join(<<NL>>,
                              <<CommaJoined(tree_columns)>>
                              \o [k \in 1..Len(CopiedRows) |-> CommaJoined(CopiedRows[k])]))

\* the first row holds the example cell and "1", and it alone was copied
C8_Witness ==
    /\ CopiedCsv
    /\ inp.sel = <<0>>
    /\ tree_rows[1] = <<ExampleCell, <<"1">>>>
    /\ clipboard = Some(<<"C", "o", "l", SP, "A", COMMA, "C", "o", "l", SP, "B", NL>>
                        \o ExampleEncoded \o <<COMMA, "1">>)

\* the rows of a CSV text
CsvRows == _parse_delimited(clipboard[1], COMMA)

\* a row as the grid holds it: one cell per column
GridRow(r) == [i \in 1..Len(tree_columns) |-> cell_of(r, i - 1)]

\* paste_rows was called with a CSV text of one or more lines on the clipboard
PastedCsv ==
    /\ pc = "paste_rows"
    /\ clipboard # None
    /\ ~ contains(clipboard[1], TAB)
    /\ CsvRows # <<>>

\* C9: when the first row of the pasted CSV text equals the header labels
\* after trimming and lower-casing, the rows after it are appended to the grid
\* and the first is not; otherwise every row is appended, the first included.
C9_HeaderSkip ==
    PastedCsv =>
        LET rows == CsvRows
            inserted == IF row_norm(rows[1]) = row_norm(tree_columns)
                        THEN Tail(rows) ELSE rows
        IN  tree_rows = inp.rows \o [k \in 1..Len(inserted) |-> GridRow(inserted[k])]

-----------------------------------------------------------------------------
(* The application: it starts with the starter document or with the last   *)
(* file loaded; the user opens files, edits the text by inserting a line   *)
(* at the top, detects tables, picks one, adds rows and commits the grid.   *)

MaxDocLines == 9
MaxGridRows == 2

\* file contents: a table between single blank lines, two tables separated
\* by a blank line, and a text without a table
DocBlankTable ==
    join(<<NL>>, << <<>>, <<BAR, "b", "c", BAR>>, <<BAR, DASH, DASH, BAR>>, <<>>, <<"x">> >>)

DocTwoTables ==
    join(<<NL>>, << <<BAR, "b", "c", BAR>>, <<BAR, DASH, DASH, COLON, BAR>>, <<>>,
                    <<BAR, "d", BAR>>, <<BAR, DASH, DASH, BAR>>, <<BAR, "e", BAR>> >>)

DocNoTable == <<"x">>

Docs == {DocBlankTable, DocTwoTables, DocNoTable}

\* lines the user types
TypedLines == { <<"x">> }

Init ==
    /\ \/ Is([Constructed EXCEPT !.editor = StarterText])
       \/ \E text \in Docs : Is(load_file(Constructed, text))
    /\ pc = "idle"
    /\ inp = <<>>
    /\ out = <<>>

DoNewFile ==
    /\ Becomes(new_file(ClearReport(Cur)))
    /\ UNCHANGED harness

DoLoadFile ==
    /\ \E text \in Docs : Becomes(load_file(ClearReport(Cur), text))
    /\ UNCHANGED harness

DoLoadFileFailed ==
    /\ Becomes(load_file_failed(ClearReport(Cur)))
    /\ UNCHANGED harness

\* the user types a line and a line break at the top of the editor
EditorInsertLine ==
    /\ Len(splitlines(editor)) < MaxDocLines
    /\ \E l \in TypedLines : Becomes([Cur EXCEPT !.editor = l \o <<NL>> \o editor])
    /\ UNCHANGED harness

DoDetectTables ==
    /\ Becomes(detect_tables(ClearReport(Cur)))
    /\ UNCHANGED harness

\* the user picks entry sel of the table picker: <<ComboboxSelected>>
DoSelectTable ==
    /\ \E sel \in 0..(Len(picker_values) - 1) :
           Becomes(load_table_into_grid([ClearReport(Cur) EXCEPT !.picker_current = sel]))
    /\ UNCHANGED harness

DoAddRow ==
    /\ Len(tree_rows) < MaxGridRows
    /\ Becomes(add_row(ClearReport(Cur)))
    /\ UNCHANGED harness

\* the guard keeps the document within MaxDocLines lines
DoCommit ==
    /\ \E S \in {commit_table_to_md(ClearReport(Cur))} :
           /\ Len(splitlines(S.editor)) <= MaxDocLines
           /\ Becomes(S)
    /\ UNCHANGED harness

Next ==
    \/ DoNewFile
    \/ DoLoadFile
    \/ DoLoadFileFailed
    \/ EditorInsertLine
    \/ DoDetectTables
    \/ DoSelectTable
    \/ DoAddRow
    \/ DoCommit

Spec == Init /\ [][Next]_vars

\* the tables in current_tables are those of the text in the editor, and a
\* table of the list is the current one
RegionsFresh ==
    /\ current_tables = find_tables(editor)
    /\ current_table_index # None
    /\ current_table_index[1] < Len(current_tables)

\* the lines before the current region, the lines of the grid rendered with
\* the region's alignments, the lines from the region's end on
FramedLines ==
    LET reg == current_tables[current_table_index[1] + 1]
        lines == splitlines(editor)
    IN  slice(lines, 0, reg.start)
        \o splitlines(to_markdown(MarkdownTable(tree_columns, reg.table.aligns, tree_rows)))
        \o slice(lines, reg.end, Len(lines))

\* C10: a commit on a document that was not edited since the last detection
\* replaces the lines [start, end) of the selected region by the rendered
\* table and keeps every line before start and from end on, blank lines next
\* to the table included.
C10_CommitFrame ==
    [][(DoCommit /\ RegionsFresh) => splitlines(editor') = FramedLines]_vars

\* C11: current_table_index is None or an index into current_tables, and no
\* handler ends by indexing current_tables out of range.
C11_SelectionIndexValid ==
    /\ \/ current_table_index = None
       \/ /\ 0 <= current_table_index[1]
          /\ current_table_index[1] < Len(current_tables)
    /\ reported # Some([via |-> "traceback", text |-> "IndexError"])

\* commit_table_to_md gets as far as the splice: a table of the list is
\* the current one
CommitSplices ==
    /\ current_table_index # None
    /\ current_table_index[1] < Len(current_tables)

\* the range of the current region is the range of a table that find_tables
\* returns for the text in the editor
RegionInEditor ==
    \E k \in 1..Len(find_tables(editor)) :
        /\ find_tables(editor)[k].start = current_tables[current_table_index[1] + 1].start
        /\ find_tables(editor)[k].end = current_tables[current_table_index[1] + 1].end

\* C12: whenever commit_table_to_md splices, the range (start, end) it uses
\* is the range of a table of the text the editor holds at that moment.
C12_RegionFresh ==
    [][(DoCommit /\ CommitSplices) => RegionInEditor]_vars
====
